---- MODULE Spec2Model ----
(***************************************************************************)
(* One invocation of the `send-many` command                               *)
(* (src/src/commands/send-many.ts, class SendMany).                        *)
(*                                                                         *)
(* A run is a single thread of control with two suspension points, the     *)
(* `await sendMany(...)` and the `await broadcastTransaction(...)`.  The   *)
(* state is the parsed command line (argv, flags), the locals of run(),    *)
(* the lines written so far and the position of run().                     *)
(*                                                                         *)
(* Text is modelled as a sequence of symbols so that `split(',')` is       *)
(* computed, not assumed: a symbol is a comma, a digit, or the body of an  *)
(* address taken as one unit.  An optional value (a flag that may be       *)
(* absent, a local not yet assigned) is a sequence of length 0 or 1.       *)
(***************************************************************************)
EXTENDS Integers, Sequences, FiniteSets

VARIABLES argv, flags, pc, recipients, examined, network, contractIdentifier,
          request, tx, result, output, error, sendManyCalls, broadcastCalls

vars == <<argv, flags, pc, recipients, examined, network, contractIdentifier,
          request, tx, result, output, error, sendManyCalls, broadcastCalls>>

(***************************************************************************)
(* Bounds of the model.                                                    *)
(***************************************************************************)
MaxArgs == 2

(***************************************************************************)
(* Optional values.                                                        *)
(***************************************************************************)
None == <<>>

Some(v) == <<v>>

(* JavaScript truthiness of an optional string: absent and "" are falsy. *)
Truthy(opt) == opt # None /\ opt[1] # ""

(***************************************************************************)
(* Text and the inputs of the model.                                       *)
(***************************************************************************)
Comma == ","

Digits == {"0", "1", "2", "5"}

ADDR_1 == "STADMRP577SC3MCNP7T3PRSTZBJ75FJ59JGABZTW"

ADDR_2 == "ST2WPFYAW85A0YK9ACJR8JGWPM19VWYF90J8P5ZTH"

ADDR_BAD == "STNOTANADDRESS"

(* What `${x}` renders for a destructured element that does not exist. *)
Undefined == <<"undefined">>

(* The positional tokens a run is given. *)
Tokens ==
    { <<ADDR_1, Comma, "1", "0", "0">>,      \* ADDR_1,100
      <<ADDR_2, Comma, "5", "0">>,           \* ADDR_2,50
      <<ADDR_1, Comma, "1", Comma, "2">>,    \* ADDR_1,1,2
      <<ADDR_BAD, Comma, "1">>,              \* malformed address
      <<ADDR_1, Comma, "0", "1">>,           \* leading zero
      <<ADDR_1>>,                            \* no comma at all
      <<ADDR_BAD, Comma, "0", "1">> }        \* both parts invalid

SeqsUpTo(S, n) == UNION { [1..k -> S] : k \in 0..n }

ArgvSet == SeqsUpTo(Tokens, MaxArgs)

NetworkNames == {"mocknet", "testnet", "mainnet"}

NodeUrls == {None, Some(""), Some("http://localhost:20443")}

ContractAddresses == {None, Some("SP3FBR2AGK5H9QBDH3EEN6DF8EK8JY7RX8QJ5SVTE.send-many")}

Nonces == {None, Some(7)}

FlagSet ==
    [ privateKey      : {"my_private_key"},
      broadcast       : BOOLEAN,
      network         : NetworkNames,
      nodeUrl         : NodeUrls,
      verbose         : BOOLEAN,
      contractAddress : ContractAddresses,
      nonce           : Nonces ]

(***************************************************************************)
(* String.prototype.split(','): the pieces between ALL the commas.         *)
(***************************************************************************)
RECURSIVE SplitFrom(_, _, _)
SplitFrom(s, i, cur) ==
    IF i > Len(s) THEN <<cur>>
    ELSE IF s[i] = Comma THEN <<cur>> \o SplitFrom(s, i + 1, <<>>)
    ELSE SplitFrom(s, i + 1, Append(cur, s[i]))

Split(s) == SplitFrom(s, 1, <<>>)

(* const [address, amount] = arg.split(',') *)
Destructure(arg) ==
    LET parts == Split(arg)
    IN  [ address |-> parts[1],
          amount  |-> IF Len(parts) >= 2 THEN parts[2] ELSE Undefined ]

(***************************************************************************)
(* The two validators.                                                     *)
(***************************************************************************)
ValidAddresses == { <<ADDR_1>>, <<ADDR_2>> }

validateStacksAddress(address) == address \in ValidAddresses

isNormalInteger(str) ==
    /\ Len(str) >= 1
    /\ \A k \in 1..Len(str) : str[k] \in Digits
    /\ (str[1] = "0" => Len(str) = 1)

InvalidAddressError(address) ==
    [message |-> <<address, " is not a valid STX address">>]

InvalidAmountError(amount) ==
    [message |-> <<amount, " is not a valid integer.">>]

PlainError(text) == [message |-> <<<<>>, text>>]

(***************************************************************************)
(* argv.map(arg => ...): the callback runs on the tokens in order and the  *)
(* first throw ends the map.                                               *)
(***************************************************************************)
RECURSIVE MapRecipients(_, _, _)
MapRecipients(args, i, acc) ==
    IF i > Len(args)
    THEN [ok |-> TRUE, recipients |-> acc, error |-> None, examined |-> i - 1]
    ELSE LET r == Destructure(args[i])
         IN  IF ~validateStacksAddress(r.address)
             THEN [ok |-> FALSE, recipients |-> <<>>,
                   error |-> Some(InvalidAddressError(r.address)), examined |-> i]
             ELSE IF ~isNormalInteger(r.amount)
             THEN [ok |-> FALSE, recipients |-> <<>>,
                   error |-> Some(InvalidAmountError(r.amount)), examined |-> i]
             ELSE MapRecipients(args, i + 1, Append(acc, r))

(***************************************************************************)
(* Networks and contracts.                                                 *)
(***************************************************************************)
ChainID_Testnet == "Testnet"

ChainID_Mainnet == "Mainnet"

StacksMainnet ==
    [chainId |-> ChainID_Mainnet, coreApiUrl |-> "https://stacks-node-api.mainnet.stacks.co"]

StacksTestnet ==
    [chainId |-> ChainID_Testnet, coreApiUrl |-> "https://stacks-node-api.testnet.stacks.co"]

StacksMocknet ==
    [chainId |-> ChainID_Testnet, coreApiUrl |-> "http://localhost:3999"]

DEFAULT_TESTNET_CONTRACT == "STB44HYPYAT2BB2QE513NSP81HTMYWBJP02HPGK6.send-many"

DEFAULT_MAINNET_CONTRACT == "not-deployed"

(* networks[flags.network]: absent for a name the table does not hold. *)
getNetwork(f) ==
    IF f.network = "mainnet" THEN Some(StacksMainnet)
    ELSE IF f.network = "testnet" THEN Some(StacksTestnet)
    ELSE IF f.network = "mocknet" THEN Some(StacksMocknet)
    ELSE None

(* A variant of NewNetwork in which an override builds a fresh testnet     *)
(* descriptor around the URL instead of updating the preset's endpoint.    *)
NewNetwork_FreshDescriptor(networkClass, f) ==
    IF Truthy(f.nodeUrl)
    THEN [chainId |-> ChainID_Testnet, coreApiUrl |-> f.nodeUrl[1]]
    ELSE networkClass

(* new networkClass(); if (flags.nodeUrl) network.coreApiUrl = flags.nodeUrl *)
NewNetwork(networkClass, f) ==
    IF Truthy(f.nodeUrl)
    THEN [networkClass EXCEPT !.coreApiUrl = f.nodeUrl[1]]
    ELSE networkClass

(* A variant of getContract with the two defaults exchanged. *)
getContract_Swapped(net) ==
    IF net.chainId = ChainID_Testnet
    THEN DEFAULT_MAINNET_CONTRACT
    ELSE DEFAULT_TESTNET_CONTRACT

getContract(net) ==
    IF net.chainId = ChainID_Testnet
    THEN DEFAULT_TESTNET_CONTRACT
    ELSE DEFAULT_MAINNET_CONTRACT

(* The object literal passed to sendMany. *)
SendManyArgs(recs, net, f, contract) ==
    [ recipients         |-> recs,
      network            |-> net,
      senderKey          |-> f.privateKey,
      contractIdentifier |-> contract ]

(***************************************************************************)
(* The collaborators.                                                      *)
(***************************************************************************)
FetchedNonces == {3}

SendManyErrors == {"InvalidSigningKey", "NonceResolutionError"}

(* The transaction the assembler builds from a request: the request's own  *)
(* nonce when it carries one, else the nonce fetched from the node.        *)
sendMany(req, fetched) ==
    [ request |-> req,
      nonce   |-> IF "nonce" \in DOMAIN req THEN req.nonce ELSE fetched ]

(* tx.serialize().toString('hex') *)
Hex(t) == [hex |-> t]

TxId == [txid |-> "9c1e4ae1f0c1b3a7"]

Rejection == [error |-> "transaction rejected", reason |-> "NotEnoughFunds"]

BroadcastResults == {TxId, Rejection}

IsTxId(r) == DOMAIN r = {"txid"}

(* result.toString(): a string is itself, an object is "[object Object]". *)
toString(r) == IF IsTxId(r) THEN r ELSE [object |-> "[object Object]"]

(* One written line: this.log(label, value) or console.log(value). *)
Labeled(label, value) == [label |-> label, value |-> value]

Unlabeled(value) == [label |-> "", value |-> value]

(* A variant of HexLines that writes the labeled line whatever the flag. *)
HexLines_Always(f, t) == <<Labeled("Transaction hex:", Hex(t))>>

(* if (verbose) this.log('Transaction hex:', tx.serialize().toString('hex')) *)
HexLines(f, t) ==
    IF f.verbose THEN <<Labeled("Transaction hex:", Hex(t))>> ELSE <<>>

(* A variant of ExplorerLink whose suffix ignores the chain identifier. *)
ExplorerLink_AlwaysTestnet(r, net) ==
    [ link  |-> "https://explorer.stacks.co/txid/0x",
      txid  |-> r,
      chain |-> "testnet" ]

ExplorerLink(r, net) ==
    [ link  |-> "https://explorer.stacks.co/txid/0x",
      txid  |-> r,
      chain |-> IF net.chainId = ChainID_Mainnet THEN "mainnet" ELSE "testnet" ]

(***************************************************************************)
(* The run.                                                                *)
(***************************************************************************)
Init ==
    /\ argv \in ArgvSet
    /\ flags \in FlagSet
    /\ pc = "validate"
    /\ recipients = <<>>
    /\ examined = 0
    /\ network = None
    /\ contractIdentifier = None
    /\ request = None
    /\ tx = None
    /\ result = None
    /\ output = <<>>
    /\ error = None
    /\ sendManyCalls = 0
    /\ broadcastCalls = 0

(* Lines 105-117: the recipients are parsed and validated. *)
Validate ==
    /\ pc = "validate"
    /\ LET m == MapRecipients(argv, 1, <<>>)
       IN  /\ recipients' = m.recipients
           /\ examined' = m.examined
           /\ error' = m.error
           /\ pc' = IF m.ok THEN "resolve" ELSE "failed"
    /\ UNCHANGED <<argv, flags, network, contractIdentifier, request, tx, result,
                   output, sendManyCalls, broadcastCalls>>

(* Lines 119-135: network, contract, and the call of sendMany. *)
Resolve ==
    /\ pc = "resolve"
    /\ LET networkClass == getNetwork(flags)
       IN  IF networkClass = None
           THEN /\ error' = Some(PlainError("Unable to get network"))
                /\ pc' = "failed"
                /\ UNCHANGED <<network, contractIdentifier, request, sendManyCalls>>
           ELSE LET net == NewNetwork(networkClass[1], flags)
                    contract == getContract(net)
                IN  /\ network' = Some(net)
                    /\ contractIdentifier' = Some(contract)
                    /\ request' = Some(SendManyArgs(recipients, net, flags, contract))
                    /\ sendManyCalls' = sendManyCalls + 1
                    /\ pc' = "assemble"
                    /\ UNCHANGED error
    /\ UNCHANGED <<argv, flags, recipients, examined, tx, result, output, broadcastCalls>>

(* The awaited sendMany resolves with a transaction. *)
SendManyReturns ==
    /\ pc = "assemble"
    /\ \E fetched \in FetchedNonces : tx' = Some(sendMany(request[1], fetched))
    /\ pc' = "report"
    /\ UNCHANGED <<argv, flags, recipients, examined, network, contractIdentifier,
                   request, result, output, error, sendManyCalls, broadcastCalls>>

(* The awaited sendMany rejects; run() does not catch it. *)
SendManyThrows ==
    /\ pc = "assemble"
    /\ \E e \in SendManyErrors : error' = Some(PlainError(e))
    /\ pc' = "failed"
    /\ UNCHANGED <<argv, flags, recipients, examined, network, contractIdentifier,
                   request, tx, result, output, sendManyCalls, broadcastCalls>>

(* Lines 137-142 and 155-157: the hex line, then either the call of        *)
(* broadcastTransaction or the unlabeled hex line.                         *)
Report ==
    /\ pc = "report"
    /\ LET hexLine == HexLines(flags, tx[1])
       IN  IF flags.broadcast
           THEN /\ output' = output \o hexLine
                /\ broadcastCalls' = broadcastCalls + 1
                /\ pc' = "broadcast"
           ELSE /\ output' = output \o hexLine \o <<Unlabeled(Hex(tx[1]))>>
                /\ broadcastCalls' = broadcastCalls
                /\ pc' = "done"
    /\ UNCHANGED <<argv, flags, recipients, examined, network, contractIdentifier,
                   request, tx, result, error, sendManyCalls>>

(* Lines 142-154: the awaited broadcastTransaction resolves, with a        *)
(* transaction identifier or with the node's rejection, and is printed.    *)
BroadcastReturns ==
    /\ pc = "broadcast"
    /\ \E r \in BroadcastResults :
          /\ result' = Some(r)
          /\ output' =
                IF flags.verbose
                THEN output \o <<Labeled("Transaction ID:", r),
                                 Labeled("View in explorer:", ExplorerLink(r, network[1]))>>
                ELSE Append(output, Unlabeled(toString(r)))
    /\ pc' = "done"
    /\ UNCHANGED <<argv, flags, recipients, examined, network, contractIdentifier,
                   request, tx, error, sendManyCalls, broadcastCalls>>

(* The awaited broadcastTransaction rejects (node unreachable). *)
BroadcastThrows ==
    /\ pc = "broadcast"
    /\ error' = Some(PlainError("Failed to broadcast transaction"))
    /\ pc' = "failed"
    /\ UNCHANGED <<argv, flags, recipients, examined, network, contractIdentifier,
                   request, tx, result, output, sendManyCalls, broadcastCalls>>

Next ==
    \/ Validate
    \/ Resolve
    \/ SendManyReturns
    \/ SendManyThrows
    \/ Report
    \/ BroadcastReturns
    \/ BroadcastThrows

Spec == Init /\ [][Next]_vars

(***************************************************************************)
(* What the documentation says of a token, independently of run():         *)
(* the token is cut at its FIRST comma; the address is what precedes it    *)
(* and the amount is everything that follows it.                           *)
(***************************************************************************)
CommaPositions(tok) == { k \in 1..Len(tok) : tok[k] = Comma }

FirstComma(tok) ==
    CHOOSE k \in CommaPositions(tok) : \A j \in CommaPositions(tok) : k <= j

TokenAddress(tok) ==
    IF CommaPositions(tok) = {} THEN tok
    ELSE SubSeq(tok, 1, FirstComma(tok) - 1)

TokenAmount(tok) ==
    IF CommaPositions(tok) = {} THEN Undefined
    ELSE SubSeq(tok, FirstComma(tok) + 1, Len(tok))

TokenValid(tok) ==
    /\ validateStacksAddress(TokenAddress(tok))
    /\ isNormalInteger(TokenAmount(tok))

TokenError(tok) ==
    IF ~validateStacksAddress(TokenAddress(tok))
    THEN InvalidAddressError(TokenAddress(tok))
    ELSE InvalidAmountError(TokenAmount(tok))

InvalidPositions(args) == { i \in 1..Len(args) : ~TokenValid(args[i]) }

FirstInvalid(args) ==
    CHOOSE i \in InvalidPositions(args) : \A j \in InvalidPositions(args) : i <= j

Validated == pc # "validate"

(***************************************************************************)
(* C1.  Whenever --contractAddress is supplied, the contract identifier of *)
(* the request handed to sendMany is the supplied string, whatever the     *)
(* network.  run() never reads flags.contractAddress, so this is violated. *)
(***************************************************************************)
C1_ExplicitContractIsUsed ==
    (request # None /\ flags.contractAddress # None)
        => request[1].contractIdentifier = flags.contractAddress[1]

(***************************************************************************)
(* C2.  The request handed to sendMany carries the nonce exactly when      *)
(* --nonce is supplied, and the assembled transaction then uses it.        *)
(* run() never reads flags.nonce, so this is violated.                     *)
(***************************************************************************)
C2_NonceIsForwarded ==
    /\ request # None =>
          IF flags.nonce # None
          THEN "nonce" \in DOMAIN request[1] /\ request[1].nonce = flags.nonce[1]
          ELSE "nonce" \notin DOMAIN request[1]
    /\ (tx # None /\ flags.nonce # None) => tx[1].nonce = flags.nonce[1]

(***************************************************************************)
(* C3.  If some token has a malformed address or an invalid amount, the    *)
(* run fails: sendMany and broadcastTransaction are never called and no    *)
(* line is written.  Violated by a token with a second comma, which        *)
(* run() accepts (see C9).                                                 *)
(***************************************************************************)
C3_InvalidTokenStopsTheRun ==
    InvalidPositions(argv) # {}
        => /\ sendManyCalls = 0
           /\ broadcastCalls = 0
           /\ output = <<>>
           /\ pc \in {"validate", "failed"}

(***************************************************************************)
(* C4.  With --broadcast and --verbose both off, broadcastTransaction is   *)
(* never called and a successful run has written exactly one line, the     *)
(* unlabeled hex of the assembled transaction.                             *)
(***************************************************************************)
C4_QuietDryRunPrintsOnlyHex ==
    (~flags.broadcast /\ ~flags.verbose)
        => /\ broadcastCalls = 0
           /\ pc = "done" =>
                 /\ tx # None
                 /\ output = << [label |-> "", value |-> [hex |-> tx[1]]] >>

C4_Witness ==
    /\ pc = "done"
    /\ ~flags.broadcast
    /\ ~flags.verbose
    /\ Len(output) = 1
    /\ sendManyCalls = 1

(***************************************************************************)
(* C5.  With --broadcast on, a submission answered by an error payload     *)
(* ends the run in failure, the payload is not printed in the place of a   *)
(* transaction identifier, and the submission is made at most once.        *)
(* run() prints whatever broadcastTransaction returns and ends normally.   *)
(***************************************************************************)
C5_RejectionFailsTheRun ==
    /\ broadcastCalls <= 1
    /\ (flags.broadcast /\ result # None /\ ~IsTxId(result[1]))
          => /\ pc = "failed"
             /\ \A k \in 1..Len(output) :
                   /\ output[k].label # "Transaction ID:"
                   /\ output[k].label # "View in explorer:"
                   /\ output[k].label = "" => output[k].value # toString(result[1])

(***************************************************************************)
(* C6 as stated.  For every supplied --nodeUrl the resolved descriptor has *)
(* that value as its endpoint and the preset's chain identifier; with no   *)
(* --nodeUrl the preset's endpoint is kept.  Violated by --nodeUrl "".     *)
(***************************************************************************)
C6_AnySuppliedUrlOverrides ==
    network # None =>
        LET preset == getNetwork(flags)[1]
        IN  /\ network[1].chainId = preset.chainId
            /\ flags.nodeUrl # None => network[1].coreApiUrl = flags.nodeUrl[1]
            /\ flags.nodeUrl = None => network[1].coreApiUrl = preset.coreApiUrl

(***************************************************************************)
(* C6 as amended.  For every NON-EMPTY supplied --nodeUrl the resolved     *)
(* descriptor has that value as its endpoint; when --nodeUrl is absent or  *)
(* empty the preset's endpoint is kept; in every case the chain identifier *)
(* is the preset's.                                                        *)
(***************************************************************************)
C6_NonEmptyUrlOverridesEndpointOnly ==
    network # None =>
        LET preset == getNetwork(flags)[1]
            given  == flags.nodeUrl # None /\ flags.nodeUrl[1] # ""
        IN  /\ network[1].chainId = preset.chainId
            /\ given => network[1].coreApiUrl = flags.nodeUrl[1]
            /\ ~given => network[1].coreApiUrl = preset.coreApiUrl

C6_Witness ==
    /\ network # None
    /\ flags.network = "mainnet"
    /\ flags.nodeUrl = Some("http://localhost:20443")
    /\ network[1].coreApiUrl = "http://localhost:20443"
    /\ network[1].chainId = "Mainnet"

(***************************************************************************)
(* C7.  With no explicit contract identifier the resolved contract depends *)
(* on the chain identifier only: Testnet (the testnet and mocknet presets) *)
(* gives STB44HYPYAT2BB2QE513NSP81HTMYWBJP02HPGK6.send-many, any other     *)
(* chain identifier gives 'not-deployed'; and network "mainnet" resolves   *)
(* to the Mainnet chain identifier.                                        *)
(***************************************************************************)
C7_DefaultContractByChain ==
    (contractIdentifier # None /\ flags.contractAddress = None)
        => /\ network # None
           /\ flags.network \in {"testnet", "mocknet"} => network[1].chainId = "Testnet"
           /\ flags.network = "mainnet" => network[1].chainId = "Mainnet"
           /\ network[1].chainId = "Testnet"
                 => contractIdentifier[1] = "STB44HYPYAT2BB2QE513NSP81HTMYWBJP02HPGK6.send-many"
           /\ network[1].chainId # "Testnet"
                 => contractIdentifier[1] = "not-deployed"
           /\ request # None => request[1].contractIdentifier = contractIdentifier[1]

C7_Witness ==
    /\ flags.contractAddress = None
    /\ flags.network = "mainnet"
    /\ contractIdentifier = Some("not-deployed")
    /\ request # None

(***************************************************************************)
(* C8.  With --broadcast and --verbose on: while the submission is pending *)
(* the labeled hex line is already written, and once it has succeeded the  *)
(* output is the labeled hex line, the labeled transaction-identifier      *)
(* line and the explorer-link line, in that order, the link's chain being  *)
(* 'mainnet' exactly for the Mainnet chain identifier and 'testnet'        *)
(* otherwise; every line is labeled.                                       *)
(***************************************************************************)
C8_VerboseBroadcastReport ==
    (flags.broadcast /\ flags.verbose)
        => /\ pc = "broadcast" =>
                 output = << [label |-> "Transaction hex:", value |-> [hex |-> tx[1]]] >>
           /\ (pc = "done" /\ result # None /\ IsTxId(result[1])) =>
                 /\ output =
                       << [label |-> "Transaction hex:", value |-> [hex |-> tx[1]]],
                          [label |-> "Transaction ID:", value |-> result[1]],
                          [label |-> "View in explorer:",
                           value |-> [ link  |-> "https://explorer.stacks.co/txid/0x",
                                       txid  |-> result[1],
                                       chain |-> IF network[1].chainId = "Mainnet"
                                                 THEN "mainnet" ELSE "testnet" ]] >>
                 /\ \A k \in 1..Len(output) : output[k].label # ""

C8_Witness ==
    /\ flags.broadcast
    /\ flags.verbose
    /\ pc = "done"
    /\ result = Some(TxId)
    /\ flags.network = "mainnet"
    /\ Len(output) = 3
    /\ output[3].value.chain = "mainnet"

(***************************************************************************)
(* C9.  Each token is cut at its first comma only: the amount of a         *)
(* recipient is all the text after the first comma of its token, so a      *)
(* token with more than one comma is rejected as an invalid amount.        *)
(* run() cuts at every comma and keeps the first two pieces.               *)
(***************************************************************************)
C9_SplitOnFirstCommaOnly ==
    Validated =>
        /\ \A i \in 1..Len(recipients) :
              /\ recipients[i].address = TokenAddress(argv[i])
              /\ recipients[i].amount = TokenAmount(argv[i])
        /\ \A i \in 1..examined :
              Cardinality(CommaPositions(argv[i])) > 1
                 => /\ pc = "failed"
                    /\ validateStacksAddress(TokenAddress(argv[i]))
                          => error = Some(InvalidAmountError(TokenAmount(argv[i])))

(***************************************************************************)
(* C10.  When every token is valid the recipients handed on are, in        *)
(* argument order and one per token (duplicates kept), the address and     *)
(* amount of each token; when some token is invalid the run fails with the *)
(* error of the first invalid token (address before amount) and examines   *)
(* no later token.  Violated by a token with a second comma (see C9).      *)
(***************************************************************************)
C10_OrderedRecipientsOrFirstError ==
    Validated =>
        IF InvalidPositions(argv) = {}
        THEN /\ Len(recipients) = Len(argv)
             /\ \A i \in 1..Len(argv) :
                   recipients[i] = [ address |-> TokenAddress(argv[i]),
                                     amount  |-> TokenAmount(argv[i]) ]
             /\ request # None => request[1].recipients = recipients
        ELSE /\ pc = "failed"
             /\ error = Some(TokenError(argv[FirstInvalid(argv)]))
             /\ examined = FirstInvalid(argv)

====
